---- MODULE Spec2Model ----
(***************************************************************************)
(* Model of rs64-rom (src/src/lib.rs): the 64-byte ROM header and its      *)
(* serialisation, byte-swap detection and conversion, and the boot         *)
(* checksum over the first 1 MiB of the load region.                        *)
(*                                                                          *)
(* A u32 is held as two 16-bit limbs <<hi, lo>> (value hi * 2^16 + lo),     *)
(* because the model checker's integers are 32-bit signed.  All u32         *)
(* arithmetic below is written on the limbs and is exact modulo 2^32.       *)
(***************************************************************************)
EXTENDS Integers, Sequences, FiniteSets, TLC

VARIABLES
    \* swap detection / conversion
    buffer,      \* the caller's byte buffer (&mut [u8])
    original,    \* the buffer as it was before any call (history)
    calls,       \* the swap_cart_to calls made so far: [target, result]
    detected,    \* result of the last detect_swapping call, "unset" before
    \* checksum
    rom,         \* the buffer handed to calculate_cart_checksum: [len, pat]
    pc,          \* position in calculate_cart_checksum
    i,           \* loop counter of the for loop
    pos,         \* the Cursor's position in checksum_slice
    t,           \* the accumulators t1..t6
    carries,     \* number of words whose unbounded sum t6 + c1 was >= 2^32 (history)
    result,      \* the value returned by calculate_cart_checksum
    \* header
    hdr,         \* the RomHeader being serialised
    sink,        \* the writer: index of the write call that fails, 0 = none
    out,         \* bytes the writer has accepted
    sres         \* result of serialize

vars == <<buffer, original, calls, detected, rom, pc, i, pos, t, carries, result,
          hdr, sink, out, sres>>

swapVars == <<buffer, original, calls, detected>>
sumVars  == <<rom, pc, i, pos, t, carries, result>>
hdrVars  == <<hdr, sink, out, sres>>

----------------------------------------------------------------------------
(* Layout constants, lib.rs:8-24 and 148-151 *)

HEADER_NAME_LEN == 20
HEADER_START    == 0
HEADER_LEN      == 64
HEADER_END      == HEADER_START + HEADER_LEN
BOOTCODE_START  == HEADER_LEN
BOOTCODE_LEN    == 4096 - HEADER_LEN
BOOTCODE_END    == BOOTCODE_START + BOOTCODE_LEN
LOAD_START      == HEADER_LEN + BOOTCODE_LEN
LOAD_LEN        == 1048576
ROM_LEN         == HEADER_LEN + BOOTCODE_LEN + LOAD_LEN

CHECKSUM_START  == BOOTCODE_END
CHECKSUM_LENGTH == LOAD_LEN
CHECKSUM_END    == CHECKSUM_START + CHECKSUM_LENGTH

----------------------------------------------------------------------------
(* 32-bit unsigned arithmetic on limbs *)

Limb == 2 ^ 16

U32(hi, lo) == <<hi, lo>>

\* 0x80371240 and 0x0000000f
DEFAULT_CART_TIMING == U32(32823, 4672)
DEFAULT_CLOCK_RATE  == U32(0, 15)

\* 0xf8ca4ddc
CHECKSUM_START_VALUE == U32(63690, 19932)

RECURSIVE XorBits(_, _, _)
XorBits(a, b, n) ==
    IF n = 0 THEN 0
    ELSE (((a % 2) + (b % 2)) % 2) + 2 * XorBits(a \div 2, b \div 2, n - 1)

\* bitwise exclusive or of two bytes, tabulated once
XorByte == [a \in 0..255 |-> [b \in 0..255 |-> XorBits(a, b, 8)]]

Xor16(a, b) ==
    (XorByte[a \div 256][b \div 256] * 256) + XorByte[a % 256][b % 256]

\* a ^ b on u32
Xor32(a, b) == U32(Xor16(a[1], b[1]), Xor16(a[2], b[2]))

\* u32::wrapping_add
wrapping_add(a, b) ==
    LET lo == a[2] + b[2]
        hi == a[1] + b[1] + (lo \div Limb)
    IN  U32(hi % Limb, lo % Limb)

\* a < b on u32
Lt32(a, b) == a[1] < b[1] \/ (a[1] = b[1] /\ a[2] < b[2])

\* c1 & 0x1f
And1f(c) == c[2] % 32

Pow2(n) == 2 ^ n

\* rotation by n < 16 bits
RotSmall(c, n) ==
    IF n = 0 THEN c
    ELSE U32(((c[1] * Pow2(n)) % Limb) + (c[2] \div Pow2(16 - n)),
             ((c[2] * Pow2(n)) % Limb) + (c[1] \div Pow2(16 - n)))

\* a left shift in place of the rotation: the bits pushed out at the top are lost
shift_left(c, n) ==
    IF n < 16
    THEN U32(((c[1] * Pow2(n)) % Limb) + (c[2] \div Pow2(16 - n)), (c[2] * Pow2(n)) % Limb)
    ELSE U32((c[2] * Pow2(n - 16)) % Limb, 0)

\* u32::rotate_left
rotate_left(c, n) ==
    IF n < 16 THEN RotSmall(c, n) ELSE RotSmall(U32(c[2], c[1]), n - 16)

----------------------------------------------------------------------------
(* calculate_cart_checksum, lib.rs:153-201 *)

\* A ROM buffer of rom.len bytes whose contents repeat the byte pattern rom.pat.
ByteAt(b, idx) == b.pat[(idx % Len(b.pat)) + 1]

\* checksum_slice = &buffer[CHECKSUM_START..CHECKSUM_END]
SliceByte(b, j) == ByteAt(b, CHECKSUM_START + j)

\* a 16-bit read in place of the 32-bit one: the cursor advances by two bytes
read_u16_as_u32(b, p) ==
    IF p + 2 > CHECKSUM_LENGTH
    THEN [ok |-> FALSE, value |-> U32(0, 0), pos |-> p]
    ELSE [ok |-> TRUE,
          value |-> U32(0, (SliceByte(b, p) * 256) + SliceByte(b, p + 1)),
          pos |-> p + 2]

\* reader.read_u32::<BigEndian>() on a Cursor at position p over checksum_slice:
\* fails when fewer than four bytes remain, else yields the word and advances by 4.
read_u32(b, p) ==
    IF p + 4 > CHECKSUM_LENGTH
    THEN [ok |-> FALSE, value |-> U32(0, 0), pos |-> p]
    ELSE [ok |-> TRUE,
          value |-> U32((SliceByte(b, p) * 256) + SliceByte(b, p + 1),
                        (SliceByte(b, p + 2) * 256) + SliceByte(b, p + 3)),
          pos |-> p + 4]

\* the carry test written with <= in place of <
CarryTestLe(k1, t6) == k1 = t6 \/ Lt32(k1, t6)

\* the test `k1 < t6` after k1 = t6.wrapping_add(c1)
CarryTest(k1, t6) == Lt32(k1, t6)

\* `t4 += 1`: plain addition.  Past 0xffffffff a build with overflow checks
\* panics and a build without them wraps to zero; both outcomes are kept.
IncOutcomes(x) ==
    IF x = U32(Limb - 1, Limb - 1)
    THEN {[panic |-> TRUE, value |-> x], [panic |-> FALSE, value |-> U32(0, 0)]}
    ELSE {[panic |-> FALSE, value |-> wrapping_add(x, U32(0, 1))]}

\* the loop body after c1 has been read, lib.rs:181-195, with t4 already decided
LoopBody(s, c1, t4new) ==
    LET k1a == wrapping_add(s.t6, c1)
        t6n == k1a
        t3n == Xor32(s.t3, c1)
        k2  == And1f(c1)
        k1  == rotate_left(c1, k2)
        t5n == wrapping_add(s.t5, k1)
        t2n == IF Lt32(c1, s.t2) THEN Xor32(s.t2, k1)
               ELSE Xor32(s.t2, Xor32(t6n, c1))
        t1n == wrapping_add(s.t1, Xor32(c1, t5n))
    IN  [t1 |-> t1n, t2 |-> t2n, t3 |-> t3n, t4 |-> t4new, t5 |-> t5n, t6 |-> t6n]

\* true sum t6 + c1 reaches 2^32
CarryOut(t6, c1) ==
    (t6[1] + c1[1] + ((t6[2] + c1[2]) \div Limb)) >= Limb

\* for _ in 0..(CHECKSUM_LENGTH / 4)
LoopCount == CHECKSUM_LENGTH \div 4

\* the length check made against the start of the window in place of its end
TooShortForStart(len) == len < CHECKSUM_START

\* the length check written with <= in place of <
TooShortOrEqual(len) == len <= CHECKSUM_END

\* lib.rs:154: buffer.len() < CHECKSUM_END
TooShort(len) == len < CHECKSUM_END

\* lib.rs:153-171: length check, slice, cursor and accumulator set-up
Begin ==
    /\ pc = "call"
    /\ IF TooShort(rom.len)
       THEN /\ pc' = "done"
            /\ result' = [kind |-> "Err", err |-> "NotLongEnough"]
            /\ UNCHANGED <<i, pos, t, carries>>
       ELSE IF CHECKSUM_END > rom.len
       THEN \* &buffer[CHECKSUM_START..CHECKSUM_END] past the end: the index panics
            /\ pc' = "done"
            /\ result' = [kind |-> "Panic"]
            /\ UNCHANGED <<i, pos, t, carries>>
       ELSE /\ pc' = "loop"
            /\ i' = 0
            /\ pos' = 0
            /\ t' = [t1 |-> CHECKSUM_START_VALUE, t2 |-> CHECKSUM_START_VALUE,
                     t3 |-> CHECKSUM_START_VALUE, t4 |-> CHECKSUM_START_VALUE,
                     t5 |-> CHECKSUM_START_VALUE, t6 |-> CHECKSUM_START_VALUE]
            /\ carries' = 0
            /\ UNCHANGED result
    /\ UNCHANGED <<rom, swapVars, hdrVars>>

\* lib.rs:173-196: one iteration of the for loop
LoopIter ==
    /\ pc = "loop"
    /\ i < LoopCount
    /\ LET r == read_u32(rom, pos) IN
       IF ~r.ok
       THEN /\ pc' = "done"
            /\ result' = [kind |-> "Err", err |-> "ErrorReadingBuffer"]
            /\ UNCHANGED <<i, pos, t, carries>>
       ELSE LET c1 == r.value
                k1 == wrapping_add(t.t6, c1)
            IN  /\ pos' = r.pos
                /\ i' = i + 1
                /\ carries' = IF CarryOut(t.t6, c1) THEN carries + 1 ELSE carries
                /\ \E o \in (IF CarryTest(k1, t.t6) THEN IncOutcomes(t.t4)
                             ELSE {[panic |-> FALSE, value |-> t.t4]}) :
                      IF o.panic
                      THEN /\ pc' = "done"
                           /\ result' = [kind |-> "Panic"]
                           /\ t' = t
                      ELSE /\ pc' = "loop"
                           /\ t' = LoopBody(t, c1, o.value)
                           /\ UNCHANGED result
    /\ UNCHANGED <<rom, swapVars, hdrVars>>

\* lib.rs:198-200
Return ==
    /\ pc = "loop"
    /\ i = LoopCount
    /\ pc' = "done"
    /\ result' = [kind |-> "Ok",
                  crc1 |-> Xor32(Xor32(t.t6, t.t4), t.t3),
                  crc2 |-> Xor32(Xor32(t.t5, t.t2), t.t1)]
    /\ UNCHANGED <<rom, i, pos, t, carries, swapVars, hdrVars>>


----------------------------------------------------------------------------
(* detect_swapping and swap_cart_to, lib.rs:110-146 *)

\* enum ByteSwapping
ByteSwapping == {"Native", "U16LittleEndian"}

\* the length test written with <= in place of <
detect_swapping_le(b) ==
    IF Len(b) <= 4 THEN "None"
    ELSE IF <<b[1], b[2], b[3], b[4]>> = <<128, 55, 18, 64>> THEN "Native"
    ELSE IF <<b[1], b[2], b[3], b[4]>> = <<55, 128, 64, 18>> THEN "U16LittleEndian"
    ELSE "None"

\* lib.rs:110-120; "None" is Option::None, a ByteSwapping name is Some(it)
detect_swapping(b) ==
    IF Len(b) < 4 THEN "None"
    ELSE IF <<b[1], b[2], b[3], b[4]>> = <<128, 55, 18, 64>> THEN "Native"
    ELSE IF <<b[1], b[2], b[3], b[4]>> = <<55, 128, 64, 18>> THEN "U16LittleEndian"
    ELSE "None"

\* lib.rs:138-143: for ii in 0..(buffer.len() / 2), exchange the two bytes at cur_base
RECURSIVE SwapLoop(_, _)
SwapLoop(b, ii) ==
    IF ii >= Len(b) \div 2 THEN b
    ELSE LET cur_base == ii * 2
             temp == b[cur_base + 1]
         IN  SwapLoop([b EXCEPT ![cur_base + 1] = b[cur_base + 2],
                                ![cur_base + 2] = temp], ii + 1)

ErrUnknown == "Unknown original byte swapping"
ErrOddLen  == "Not an even length for swapping"

\* swap_cart_to without the early return of lib.rs:134-136
swap_cart_to_always(new_swapping, b) ==
    LET original_swapping == detect_swapping(b) IN
    IF original_swapping = "None" THEN [res |-> ErrUnknown, buf |-> b]
    ELSE IF (Len(b) % 2) # 0 THEN [res |-> ErrOddLen, buf |-> b]
    ELSE [res |-> "Ok", buf |-> SwapLoop(b, 0)]

\* swap_cart_to exchanging the byte pairs of the magic word only
swap_cart_to_prefix(new_swapping, b) ==
    LET original_swapping == detect_swapping(b) IN
    IF original_swapping = "None" THEN [res |-> ErrUnknown, buf |-> b]
    ELSE IF (Len(b) % 2) # 0 THEN [res |-> ErrOddLen, buf |-> b]
    ELSE IF original_swapping = new_swapping THEN [res |-> "Ok", buf |-> b]
    ELSE [res |-> "Ok", buf |-> SwapLoop(SubSeq(b, 1, 4), 0) \o SubSeq(b, 5, Len(b))]

\* swap_cart_to with the length test made before the detection
swap_cart_to_length_first(new_swapping, b) ==
    LET original_swapping == detect_swapping(b) IN
    IF (Len(b) % 2) # 0 THEN [res |-> ErrOddLen, buf |-> b]
    ELSE IF original_swapping = "None" THEN [res |-> ErrUnknown, buf |-> b]
    ELSE IF original_swapping = new_swapping THEN [res |-> "Ok", buf |-> b]
    ELSE [res |-> "Ok", buf |-> SwapLoop(b, 0)]

\* lib.rs:122-146: the returned Result and the buffer as the call leaves it
swap_cart_to(new_swapping, b) ==
    LET original_swapping == detect_swapping(b) IN
    IF original_swapping = "None" THEN [res |-> ErrUnknown, buf |-> b]
    ELSE IF (Len(b) % 2) # 0 THEN [res |-> ErrOddLen, buf |-> b]
    ELSE IF original_swapping = new_swapping THEN [res |-> "Ok", buf |-> b]
    ELSE [res |-> "Ok", buf |-> SwapLoop(b, 0)]

MaxLen   == 6
MaxCalls == 2

\* byte values the buffers are built from: the four magic bytes and two others
MagicBytes == {128, 55, 18, 64}
Bytes      == MagicBytes \cup {0}
TailBytes  == {0, 55}

PrefixLen(n) == IF n < 4 THEN n ELSE 4

\* every buffer of up to MaxLen bytes: its first four bytes from Bytes, the rest from TailBytes
Buffers ==
    UNION { { p \o q : p \in [1..PrefixLen(n) -> Bytes],
                       q \in [1..(n - PrefixLen(n)) -> TailBytes] } : n \in 0..MaxLen }

\* a caller's detect_swapping(buffer)
Detect ==
    /\ detected' = [arg |-> buffer, ret |-> detect_swapping(buffer)]
    /\ UNCHANGED <<buffer, original, calls, sumVars, hdrVars>>

\* a caller's swap_cart_to(target, buffer); the call runs detect_swapping itself
SwapCartTo(target) ==
    /\ Len(calls) < MaxCalls
    /\ LET r == swap_cart_to(target, buffer) IN
       /\ buffer' = r.buf
       /\ calls' = Append(calls, [target |-> target, res |-> r.res,
                                  before |-> buffer, after |-> r.buf])
    /\ detected' = [arg |-> buffer, ret |-> detect_swapping(buffer)]
    /\ UNCHANGED <<original, sumVars, hdrVars>>

----------------------------------------------------------------------------
(* RomHeader, lib.rs:41-102 *)

U32Fields == {"cart_timing", "clock_rate", "load_addr", "release", "crc1", "crc2",
              "rsvd_18", "rsvd_1c", "rsvd_34", "manuf_id"}
U16Fields == {"cart_id", "country_code"}

\* impl Default for RomHeader, lib.rs:84-102
RomHeaderDefault ==
    [cart_timing |-> DEFAULT_CART_TIMING, clock_rate |-> DEFAULT_CLOCK_RATE,
     load_addr |-> U32(0, 0), release |-> U32(0, 0), crc1 |-> U32(0, 0),
     crc2 |-> U32(0, 0), rsvd_18 |-> U32(0, 0), rsvd_1c |-> U32(0, 0),
     name |-> [k \in 1..HEADER_NAME_LEN |-> 0],
     rsvd_34 |-> U32(0, 0), manuf_id |-> U32(0, 0), cart_id |-> 0, country_code |-> 0]

\* the four bytes least significant first
write_u32_le(x) == <<x[2] % 256, x[2] \div 256, x[1] % 256, x[1] \div 256>>

\* writer.write_u32::<BigEndian>(x): the four bytes handed to the writer
write_u32(x) == <<x[1] \div 256, x[1] % 256, x[2] \div 256, x[2] % 256>>

\* writer.write_u16::<BigEndian>(x)
write_u16(x) == <<x \div 256, x % 256>>

\* writer.write_u8(x)
write_u8(x) == <<x>>

\* lib.rs:64-78: the write calls serialize makes, in order, each as the bytes it writes
WriteCalls(h) ==
    <<write_u32(h.cart_timing), write_u32(h.clock_rate), write_u32(h.load_addr),
      write_u32(h.release), write_u32(h.crc1), write_u32(h.crc2),
      write_u32(h.rsvd_18), write_u32(h.rsvd_1c)>>
    \o [k \in 1..HEADER_NAME_LEN |-> write_u8(h.name[k])]
    \o <<write_u32(h.rsvd_34), write_u32(h.manuf_id),
         write_u16(h.cart_id), write_u16(h.country_code)>>

NumWriteCalls == 8 + HEADER_NAME_LEN + 4

\* the bytes of the first n write calls
RECURSIVE Written(_, _)
Written(w, n) == IF n = 0 THEN <<>> ELSE Written(w, n - 1) \o w[n]

\* lib.rs:63-81 on a writer whose failAt-th write call fails (0: none fails);
\* `?` returns at the first failed call, so the calls before it are all that is written
serialize(h, failAt) ==
    IF failAt = 0 \/ failAt > NumWriteCalls
    THEN [res |-> "Ok", written |-> Written(WriteCalls(h), NumWriteCalls)]
    ELSE [res |-> "Err", written |-> Written(WriteCalls(h), failAt - 1)]

MaxEdits == 2

U32Vals  == {U32(258, 772), U32(65535, 65534)}
U16Vals  == {258, 65534}
NameVals == {[k \in 1..HEADER_NAME_LEN |-> 64 + k], [k \in 1..HEADER_NAME_LEN |-> 255 - k]}

\* the caller assigns a public field of the header
SetField ==
    /\ sres = "unset"
    /\ hdr.edits < MaxEdits
    /\ \/ \E f \in U32Fields, v \in U32Vals :
             hdr' = [hdr EXCEPT !.h[f] = v, !.edits = @ + 1]
       \/ \E f \in U16Fields, v \in U16Vals :
             hdr' = [hdr EXCEPT !.h[f] = v, !.edits = @ + 1]
       \/ \E v \in NameVals :
             hdr' = [hdr EXCEPT !.h.name = v, !.edits = @ + 1]
    /\ UNCHANGED <<sink, out, sres, swapVars, sumVars>>

\* header.serialize(&mut sink)
Serialize ==
    /\ sres = "unset"
    /\ LET r == serialize(hdr.h, sink) IN
       /\ out' = out \o r.written
       /\ sres' = r.res
    /\ UNCHANGED <<hdr, sink, swapVars, sumVars>>

----------------------------------------------------------------------------
(* Specifications *)

IdleSwap ==
    /\ buffer = <<>> /\ original = <<>> /\ calls = <<>>
    /\ detected = [arg |-> <<>>, ret |-> "unset"]

IdleChecksum ==
    /\ rom = [len |-> 0, pat |-> <<0>>]
    /\ pc = "idle" /\ i = 0 /\ pos = 0
    /\ t = [t1 |-> U32(0, 0), t2 |-> U32(0, 0), t3 |-> U32(0, 0),
            t4 |-> U32(0, 0), t5 |-> U32(0, 0), t6 |-> U32(0, 0)]
    /\ carries = 0
    /\ result = [kind |-> "None"]

IdleHeader ==
    /\ hdr = [h |-> RomHeaderDefault, edits |-> 0]
    /\ sink = 0 /\ out = <<>> /\ sres = "idle"

\* a caller holding some buffer, about to detect or convert it
Init ==
    /\ buffer \in Buffers
    /\ original = buffer
    /\ calls = <<>>
    /\ detected = [arg |-> <<>>, ret |-> "unset"]
    /\ IdleChecksum /\ IdleHeader

Next == Detect \/ \E target \in ByteSwapping : SwapCartTo(target)

Spec == Init /\ [][Next]_vars

\* ROM buffers handed to calculate_cart_checksum: too short ones of several
\* lengths, the three test vectors of lib.rs:213-230, and a longer buffer with
\* a pattern that does not repeat on a word boundary
ShortLens   == {0, 1, 3, 4, HEADER_LEN, BOOTCODE_END, BOOTCODE_END + 4, LOAD_LEN,
                CHECKSUM_END - 4, CHECKSUM_END - 1}
RomPatterns == {<<0>>, <<255>>, <<65>>, <<255, 254, 0, 1, 128>>}
Roms ==
    [len : ShortLens, pat : RomPatterns]
    \cup [len : {CHECKSUM_END}, pat : {<<0>>, <<255>>, <<65>>}]
    \cup [len : {CHECKSUM_END + 1}, pat : {<<255, 254, 0, 1, 128>>}]

InitChecksum ==
    /\ rom \in Roms
    /\ pc = "call" /\ i = 0 /\ pos = 0
    /\ t = [t1 |-> U32(0, 0), t2 |-> U32(0, 0), t3 |-> U32(0, 0),
            t4 |-> U32(0, 0), t5 |-> U32(0, 0), t6 |-> U32(0, 0)]
    /\ carries = 0
    /\ result = [kind |-> "None"]
    /\ IdleSwap /\ IdleHeader

NextChecksum == Begin \/ LoopIter \/ Return

SpecChecksum == InitChecksum /\ [][NextChecksum]_vars

\* a freshly constructed header (RomHeader::new) and some writer
InitHeader ==
    /\ hdr = [h |-> RomHeaderDefault, edits |-> 0]
    /\ sink \in 0..NumWriteCalls
    /\ out = <<>>
    /\ sres = "unset"
    /\ IdleSwap /\ IdleChecksum

NextHeader == SetField \/ Serialize

SpecHeader == InitHeader /\ [][NextHeader]_vars

----------------------------------------------------------------------------
(* Properties of detection and conversion, checked under Spec *)

\* the first four bytes are the magic word in native order
HasNativeMagic(b) ==
    Len(b) >= 4 /\ b[1] = 128 /\ b[2] = 55 /\ b[3] = 18 /\ b[4] = 64

\* the first four bytes are the magic word with each 16-bit unit byte-swapped
HasSwappedMagic(b) ==
    Len(b) >= 4 /\ b[1] = 55 /\ b[2] = 128 /\ b[3] = 64 /\ b[4] = 18

Recognized(b) == HasNativeMagic(b) \/ HasSwappedMagic(b)

\* the ordering the magic word of b shows
OrderingOf(b) == IF HasNativeMagic(b) THEN "Native" ELSE "U16LittleEndian"

EvenLen(b) == Len(b) % 2 = 0

\* b with every adjacent byte pair exchanged (b of even length)
PairSwapped(b) ==
    [k \in 1..Len(b) |-> IF k % 2 = 1 THEN b[k + 1] ELSE b[k - 1]]

\* C4: detect_swapping returns None for every buffer shorter than 4 bytes; for a
\* longer buffer it returns Some(Native) exactly when bytes 0..3 are 80 37 12 40,
\* Some(U16LittleEndian) exactly when they are 37 80 40 12, and None for every
\* other prefix; nothing but the length test and bytes 0..3 enters the result.
C4_DetectByPrefix ==
    detected.ret # "unset" =>
        LET b == detected.arg IN
        /\ Len(b) < 4 => detected.ret = "None"
        /\ Len(b) >= 4 =>
              /\ detected.ret = "Native"
                    <=> (b[1] = 128 /\ b[2] = 55 /\ b[3] = 18 /\ b[4] = 64)
              /\ detected.ret = "U16LittleEndian"
                    <=> (b[1] = 55 /\ b[2] = 128 /\ b[3] = 64 /\ b[4] = 18)
              /\ detected.ret \in {"Native", "U16LittleEndian", "None"}

\* a six-byte buffer with the swapped magic word and a later byte that is not
\* zero has been detected as U16LittleEndian
C4_Witness ==
    /\ detected.ret = "U16LittleEndian"
    /\ Len(detected.arg) = 6
    /\ detected.arg[5] # 0
    /\ calls = <<>>

\* C5: swap_cart_to(target, buffer) on an even-length buffer whose detected
\* ordering already equals target returns Ok and leaves every byte unchanged.
C5_NoOpWhenAlreadyTarget ==
    \A k \in 1..Len(calls) :
        LET c == calls[k] IN
        (EvenLen(c.before) /\ Recognized(c.before) /\ OrderingOf(c.before) = c.target)
            => (c.res = "Ok" /\ c.after = c.before)

C5_Witness ==
    /\ Len(calls) = 1
    /\ Len(calls[1].before) = 6
    /\ HasSwappedMagic(calls[1].before)
    /\ calls[1].target = "U16LittleEndian"
    /\ calls[1].res = "Ok"
    /\ buffer = original

\* C2 as stated: for any even-length buffer with a recognized magic prefix and
\* either assignment of {A, B} = {Native, U16LittleEndian}, swap_cart_to(B)
\* followed by swap_cart_to(A) leaves the buffer equal to its original contents.
C2_AnyOrderRestores ==
    \A k \in 1..(Len(calls) - 1) :
        (/\ calls[k].target # calls[k + 1].target
         /\ EvenLen(calls[k].before)
         /\ Recognized(calls[k].before))
            => calls[k + 1].after = calls[k].before

\* C2 amended: for an even-length buffer with a recognized magic prefix, both
\* calls succeed; the buffer ends equal to its original contents when A, the
\* target of the second call, is the ordering the original was in, and ends as
\* the original with every adjacent byte pair exchanged (and so different) when
\* B, the target of the first call, is the ordering the original was in.
C2_RestoresWhenBackToOriginalOrdering ==
    \A k \in 1..(Len(calls) - 1) :
        LET b0 == calls[k].before IN
        (/\ calls[k].target # calls[k + 1].target
         /\ EvenLen(b0)
         /\ Recognized(b0))
            => /\ calls[k].res = "Ok" /\ calls[k + 1].res = "Ok"
               /\ calls[k + 1].target = OrderingOf(b0)
                     => (calls[k].after = PairSwapped(b0) /\ calls[k + 1].after = b0)
               /\ calls[k].target = OrderingOf(b0)
                     => /\ calls[k].after = b0
                        /\ calls[k + 1].after = PairSwapped(b0)
                        /\ calls[k + 1].after # b0

\* a six-byte native image converted to U16LittleEndian and back
C2_Witness ==
    /\ Len(calls) = 2
    /\ Len(original) = 6
    /\ HasNativeMagic(original)
    /\ original[5] # original[6]
    /\ calls[1].target = "U16LittleEndian"
    /\ calls[2].target = "Native"
    /\ calls[1].after # original
    /\ buffer = original

\* C3 as stated: swap_cart_to on any buffer of odd length fails with
\* "Not an even length for swapping", whatever its first bytes are.
C3_OddAlwaysLengthError ==
    \A k \in 1..Len(calls) :
        ~EvenLen(calls[k].before) => calls[k].res = ErrOddLen

\* C3 amended: swap_cart_to on any buffer of odd length fails and leaves the
\* buffer unchanged, for every target; the error is "Not an even length for
\* swapping" when the first four bytes are a recognized magic prefix, and
\* "Unknown original byte swapping" when they are not or there are fewer than
\* four bytes, because detection runs before the length test.
C3_OddFailsDetectionFirst ==
    \A k \in 1..Len(calls) :
        LET c == calls[k] IN
        ~EvenLen(c.before) =>
            /\ c.res = (IF Recognized(c.before) THEN ErrOddLen ELSE ErrUnknown)
            /\ c.after = c.before

C3_Witness ==
    /\ Len(calls) = 2
    /\ Len(original) = 5
    /\ HasNativeMagic(original)
    /\ calls[1].res = ErrOddLen
    /\ calls[2].res = ErrOddLen
    /\ calls[1].target # calls[2].target

\* the targets of the successful calls made so far, in order
RECURSIVE OkTargets(_)
OkTargets(cs) ==
    IF cs = <<>> THEN <<>>
    ELSE LET c == cs[Len(cs)]
             r == OkTargets(SubSeq(cs, 1, Len(cs) - 1))
         IN  IF c.res = "Ok" THEN Append(r, c.target) ELSE r

\* C10: after a successful swap_cart_to(target, buffer), detect_swapping(buffer)
\* is Some(target) and the length is unchanged; after a failing call every byte
\* is unchanged.  Over any sequence of calls on an even-length recognized
\* buffer, the buffer is the original or the original with every adjacent byte
\* pair exchanged, and its ordering is the target of the last successful call.
C10_ConversionInvariant ==
    /\ \A k \in 1..Len(calls) :
          LET c == calls[k] IN
          /\ c.before = (IF k = 1 THEN original ELSE calls[k - 1].after)
          /\ c.res = "Ok" =>
                /\ Recognized(c.after) /\ OrderingOf(c.after) = c.target
                /\ Len(c.after) = Len(c.before)
          /\ c.res # "Ok" => c.after = c.before
    /\ calls # <<>> => buffer = calls[Len(calls)].after
    /\ (EvenLen(original) /\ Recognized(original)) =>
          /\ buffer \in {original, PairSwapped(original)}
          /\ LET ok == OkTargets(calls) IN
             /\ Len(ok) = Len(calls)
             /\ ok # <<>> => (Recognized(buffer) /\ OrderingOf(buffer) = ok[Len(ok)])

\* a six-byte U16LittleEndian image: a no-op call, then a conversion to native
C10_Witness ==
    /\ Len(calls) = 2
    /\ Len(original) = 6
    /\ HasSwappedMagic(original)
    /\ original[5] # original[6]
    /\ calls[2].target = "Native"
    /\ calls[2].res = "Ok"
    /\ buffer = PairSwapped(original)
    /\ buffer # original

----------------------------------------------------------------------------
(* Properties of header serialisation, checked under SpecHeader *)

\* the u32 whose big-endian encoding is the four bytes of o at byte offset off
BE32At(o, off) ==
    U32((o[off + 1] * 256) + o[off + 2], (o[off + 3] * 256) + o[off + 4])

\* the u16 whose big-endian encoding is the two bytes of o at byte offset off
BE16At(o, off) == (o[off + 1] * 256) + o[off + 2]

\* C7: serialising a header into a writer that accepts every write emits
\* exactly 64 bytes in the declared field order (six u32, two reserved u32, the
\* 20 name bytes verbatim, a reserved u32, manuf_id, cart_id u16, country_code
\* u16), every multi-byte field most significant byte first; for the default
\* header these are 80 37 12 40, then 00 00 00 0F, then 56 zero bytes.
C7_SerializedLayout ==
    sres = "Ok" =>
        LET h == hdr.h IN
        /\ Len(out) = 64
        /\ \A k \in 1..Len(out) : out[k] \in 0..255
        /\ BE32At(out, 0) = h.cart_timing
        /\ BE32At(out, 4) = h.clock_rate
        /\ BE32At(out, 8) = h.load_addr
        /\ BE32At(out, 12) = h.release
        /\ BE32At(out, 16) = h.crc1
        /\ BE32At(out, 20) = h.crc2
        /\ BE32At(out, 24) = h.rsvd_18
        /\ BE32At(out, 28) = h.rsvd_1c
        /\ \A k \in 1..20 : out[32 + k] = h.name[k]
        /\ BE32At(out, 52) = h.rsvd_34
        /\ BE32At(out, 56) = h.manuf_id
        /\ BE16At(out, 60) = h.cart_id
        /\ BE16At(out, 62) = h.country_code
        /\ h = RomHeaderDefault =>
              out = <<128, 55, 18, 64, 0, 0, 0, 15>> \o [k \in 1..56 |-> 0]

\* the default header has been serialised into an accepting writer
C7_Witness ==
    /\ sres = "Ok"
    /\ sink = 0
    /\ hdr.edits = 0
    /\ hdr.h = RomHeaderDefault
    /\ Len(out) = 64
    /\ out[1] = 128 /\ out[8] = 15

----------------------------------------------------------------------------
(* Properties of the checksum, checked under SpecChecksum *)

OkResult(hi1, lo1, hi2, lo2) ==
    [kind |-> "Ok", crc1 |-> U32(hi1, lo1), crc2 |-> U32(hi2, lo2)]

\* C1: on a buffer of exactly 4096 + 0x100000 bytes the checksum is
\* Ok((0xF8CA4DDC, 0x303A4DDC)) when every byte is 0x00,
\* Ok((0xF8C24DDC, 0xC1544DDC)) when every byte is 0xFF and
\* Ok((0xFDCF52E1, 0xCD5A4DDC)) when every byte is 0x41.
C1_TestVectors ==
    (pc = "done" /\ rom.len = 4096 + 1048576) =>
        /\ rom.pat = <<0>>   => result = OkResult(63690, 19932, 12346, 19932)
        /\ rom.pat = <<255>> => result = OkResult(63682, 19932, 49492, 19932)
        /\ rom.pat = <<65>>  => result = OkResult(64975, 21217, 52570, 19932)

\* the all-0xFF vector has been run to its end over all 0x40000 words
C1_Witness ==
    /\ pc = "done"
    /\ rom = [len |-> 4096 + 1048576, pat |-> <<255>>]
    /\ i = 262144
    /\ result.kind = "Ok"

\* C6: for every buffer shorter than 4096 + 0x100000 bytes the call returns
\* Err(NotLongEnough), and it does so without ever reaching the slice or the
\* loop: no word is read and the cursor never moves.
C6_ShortBufferRejected ==
    rom.len < 4096 + 1048576 =>
        /\ pc \in {"call", "done"}
        /\ i = 0 /\ pos = 0
        /\ pc = "done" => result = [kind |-> "Err", err |-> "NotLongEnough"]

\* a buffer one byte short of the bound has been rejected
C6_Witness ==
    /\ pc = "done"
    /\ rom.len = 4096 + 1048576 - 1
    /\ result = [kind |-> "Err", err |-> "NotLongEnough"]

\* C8: for every buffer of at least 4096 + 0x100000 bytes, iteration i reads
\* the four bytes at offsets 4i..4i+3 of the window, all inside it, the loop
\* ends with the cursor exactly at the end of the window after 0x40000 reads,
\* and the call returns Ok, never Err(ErrorReadingBuffer).
C8_WindowConsumedExactly ==
    rom.len >= 4096 + 1048576 =>
        /\ pc \in {"loop", "done"} =>
              /\ pos = 4 * i
              /\ i <= 262144
              /\ pos <= 1048576
              /\ 4096 + pos <= rom.len
        /\ pc = "done" =>
              /\ result.kind = "Ok"
              /\ i = 262144
              /\ pos = 1048576

\* a buffer longer than the bound has been summed to its end
C8_Witness ==
    /\ pc = "done"
    /\ rom.len > 4096 + 1048576
    /\ result.kind = "Ok"
    /\ pos = 1048576

\* 0xf8ca4ddc + n as an exact sum: its low limb and what is carried above it
SeedPlusLow(n)  == (19932 + n) % 65536
SeedPlusHigh(n) == 63690 + ((19932 + n) \div 65536)

\* C9: t4 is incremented at a word exactly when the unbounded sum t6 + c1
\* reaches 2^32, so at every point of the loop t4 is 0xF8CA4DDC plus the
\* number of carrying words so far; that count is at most the number of words
\* read, t4 stays below 2^32 and the increment never overflows.
C9_T4CountsCarries ==
    (rom.len >= 4096 + 1048576 /\ pc \in {"loop", "done"}) =>
        /\ result.kind # "Panic"
        /\ carries <= i
        /\ SeedPlusHigh(carries) < 65536
        /\ t.t4 = U32(SeedPlusHigh(carries), SeedPlusLow(carries))

\* every one of the 0x40000 words of the all-0xFF window carried
C9_Witness ==
    /\ pc = "done"
    /\ rom.pat = <<255>>
    /\ carries = 262144
    /\ t.t4 = U32(63694, 19932)
    /\ result.kind = "Ok"

====
